---- MODULE Spec2Model ----
(***************************************************************************)
(* Model of the line-level diff engine of ddiff (main.go): computeDiff     *)
(* (LCS table fill and backtracking) and the hunk assembler                *)
(* (createHunksFromEdits, createSingleHunk), driven by generateHunks.      *)
(* Indices are the 0-based indices of the Go code; Line(l, k) reads l[k].  *)
(***************************************************************************)
EXTENDS Integers, Sequences, FiniteSets, TLC

VARIABLES lines1, lines2, context, pc, dp, i, j, edits, hunks, groups, diff, printed

\* State of one call of getFileList: the directory tree on disk, the flag, the
\* paths WalkDir has still to visit, the list built so far, the paths walkFunc
\* was called with, and the position of the call.
VARIABLES tree, recursive, pending, files, visited, wpc

diffVars == <<lines1, lines2, context, pc, dp, i, j, edits, hunks, groups, diff, printed>>
walkVars == <<tree, recursive, pending, files, visited, wpc>>
vars == <<diffVars, walkVars>>

(***************************************************************************)
(* Bounds of the inputs that are enumerated.                               *)
(***************************************************************************)
MaxLen == 4
MaxContext == 2
MaxDepth == 3

Alphabet == {"a", "b"}

SeqsUpTo(n) == UNION {[1..k -> Alphabet] : k \in 0..n}

BoundedInputs == SeqsUpTo(MaxLen) \X SeqsUpTo(MaxLen) \X (0..MaxContext)

\* Two changes separated by ten unchanged lines.
TenApart1 == <<"x", "1", "2", "3", "4", "5", "6", "7", "8", "9", "10", "y">>
TenApart2 == <<"z", "1", "2", "3", "4", "5", "6", "7", "8", "9", "10", "w">>

\* Two replacements one unchanged line apart, then a third two unchanged lines on.
Merge1 == <<"x", "1", "y", "2", "3", "z">>
Merge2 == <<"p", "1", "q", "2", "3", "r">>

Scenarios ==
    { <<Merge1, Merge2, 1>>,
      <<(<<"a", "b", "c">>), (<<"a", "x", "c">>), 1>>,
      <<(<<"a", "b", "c", "d", "e">>), (<<"a", "b", "c", "d", "e">>), 3>>,
      <<(<<"x", "b", "c", "d", "e">>), (<<"a", "b", "c", "d", "e">>), 3>>,
      <<TenApart1, TenApart2, 2>>,
      <<TenApart1, TenApart2, 0>> }

Inputs == BoundedInputs \cup Scenarios

(***************************************************************************)
(* Helpers of main.go.                                                     *)
(***************************************************************************)
max(a, b) == IF a > b THEN a ELSE b

min(a, b) == IF a < b THEN a ELSE b

\* l[k] of the Go slice l (0-based).
Line(l, k) == l[k + 1]

(***************************************************************************)
(* computeDiff: the table.                                                 *)
(***************************************************************************)
\* dp := make([][]int, n+1), each row make([]int, m+1): all zero.
ZeroTable(n, m) == [a \in 0..n |-> [b \in 0..m |-> 0]]

\* Mutant: without a match only the cell above is taken.
CellMut(t, l1, l2, a, b) ==
    IF Line(l1, a - 1) = Line(l2, b - 1)
    THEN t[a - 1][b - 1] + 1
    ELSE t[a - 1][b]

\* The value the fill loop stores in dp[a][b].
Cell(t, l1, l2, a, b) ==
    IF Line(l1, a - 1) = Line(l2, b - 1)
    THEN t[a - 1][b - 1] + 1
    ELSE max(t[a - 1][b], t[a][b - 1])

\* len(dp[a]), which is m+1 for every row, and len(dp), which is n+1.
RowLen(t, a) == Cardinality(DOMAIN t[a])
TableLen(t) == Cardinality(DOMAIN t)

\* The inner fill loop of row a, from column b on (b <= m is b < len(dp[a])).
RECURSIVE FillRow(_, _, _, _, _)
FillRow(t, l1, l2, a, b) ==
    IF b >= RowLen(t, a) THEN t
    ELSE FillRow([t EXCEPT ![a][b] = Cell(t, l1, l2, a, b)], l1, l2, a, b + 1)

\* The outer fill loop, from row a on (a <= n is a < len(dp)).
RECURSIVE FillFrom(_, _, _, _)
FillFrom(t, l1, l2, a) ==
    IF a >= TableLen(t) THEN t
    ELSE FillFrom(FillRow(t, l1, l2, a, 1), l1, l2, a + 1)

FillTable(l1, l2) == FillFrom(ZeroTable(Len(l1), Len(l2)), l1, l2, 1)

(***************************************************************************)
(* computeDiff: the backtracking loop.                                     *)
(***************************************************************************)
\* Mutant: End1 is set to start1 instead of start1 + 1.
NewEditMut(t, s1, e1, s2, e2) ==
    [Type |-> t, Start1 |-> s1, End1 |-> e1 - 1, Start2 |-> s2, End2 |-> e2]

NewEdit(t, s1, e1, s2, e2) ==
    [Type |-> t, Start1 |-> s1, End1 |-> e1, Start2 |-> s2, End2 |-> e2]

\* Mutant: the lines are not compared.
EqualCondMut(a, b) == a > 0 /\ b > 0

\* Condition of the Equal branch and of its inner loop.
EqualCond(a, b) == a > 0 /\ b > 0 /\ Line(lines1, a - 1) = Line(lines2, b - 1)

\* Condition of the Delete branch and of its inner loop.
DeleteCond(a, b) == a > 0 /\ (IF b = 0 THEN TRUE ELSE dp[a - 1][b] >= dp[a][b - 1])

\* Condition of the inner loop of the Insert branch.
InsertCond(a, b) == b > 0 /\ (IF a = 0 THEN TRUE ELSE dp[a - 1][b] < dp[a][b - 1])

\* Mutant: the inner loop of the Equal branch is an if, it runs at most once.
EqualRunMut(a, b) == IF EqualCond(a, b) THEN 1 ELSE 0

\* Number of iterations of the inner loop of the Equal branch from (a, b).
RECURSIVE EqualRun(_, _)
EqualRun(a, b) == IF EqualCond(a, b) THEN 1 + EqualRun(a - 1, b - 1) ELSE 0

\* Number of iterations of the inner loop of the Delete branch from (a, b).
RECURSIVE DeleteRun(_, _)
DeleteRun(a, b) == IF DeleteCond(a, b) THEN 1 + DeleteRun(a - 1, b) ELSE 0

\* Mutant: the inner loop of the Insert branch does not test i == 0.
RECURSIVE InsertRunMut(_, _)
InsertRunMut(a, b) ==
    IF b > 0 /\ a > 0 /\ dp[a - 1][b] < dp[a][b - 1] THEN 1 + InsertRunMut(a, b - 1) ELSE 0

\* Number of iterations of the inner loop of the Insert branch from (a, b).
RECURSIVE InsertRun(_, _)
InsertRun(a, b) == IF InsertCond(a, b) THEN 1 + InsertRun(a, b - 1) ELSE 0

\* Mutant: the edit is appended instead of prepended.
PrependMut(e, es) == Append(es, e)

\* append([]Edit{e}, edits...)
Prepend(e, es) == <<e>> \o es

\* Condition of the backtracking loop: i > 0 || j > 0.
LoopCond(a, b) == IF a > 0 THEN TRUE ELSE b > 0

(***************************************************************************)
(* createSingleHunk.                                                       *)
(***************************************************************************)
\* fmt.Sprintf("@@ -%d,%d +%d,%d @@", s1, l1, s2, l2)
Sprintf(s1, l1, s2, l2) ==
    "@@ -" \o ToString(s1) \o "," \o ToString(l1) \o
    " +" \o ToString(s2) \o "," \o ToString(l2) \o " @@"

\* Mutant: the loop stops one line early.
PrefixedLinesMut(prefix, l, from, to) ==
    [k \in 1..(to - from - 1) |-> prefix \o Line(l, from + k - 1)]

\* The lines prefix+l[k] for k = from .. to-1, as one loop appends them.
PrefixedLines(prefix, l, from, to) ==
    [k \in 1..(to - from) |-> prefix \o Line(l, from + k - 1)]

\* Mutant: the switch has no case for "insert".
EditLinesNoInsertMut(l1, l2, edit) ==
    CASE edit.Type = "equal" -> PrefixedLines(" ", l1, edit.Start1, edit.End1)
      [] edit.Type = "delete" -> PrefixedLines("-", l1, edit.Start1, edit.End1)
      [] OTHER -> <<>>

\* Mutant: the lines of an Equal edit are rendered with the '-' prefix.
EditLinesEqualMut(l1, l2, edit) ==
    CASE edit.Type = "equal" -> PrefixedLines("-", l1, edit.Start1, edit.End1)
      [] edit.Type = "delete" -> PrefixedLines("-", l1, edit.Start1, edit.End1)
      [] edit.Type = "insert" -> PrefixedLines("+", l2, edit.Start2, edit.End2)
      [] OTHER -> <<>>

\* The switch on edit.Type in the loop over the edits of the hunk.
EditLines(l1, l2, edit) ==
    CASE edit.Type = "equal" -> PrefixedLines(" ", l1, edit.Start1, edit.End1)
      [] edit.Type = "delete" -> PrefixedLines("-", l1, edit.Start1, edit.End1)
      [] edit.Type = "insert" -> PrefixedLines("+", l2, edit.Start2, edit.End2)
      [] OTHER -> <<>>

\* The loop over the edits of the hunk, from the k-th (1-based) on.
RECURSIVE ChangeLines(_, _, _, _)
ChangeLines(l1, l2, es, k) ==
    IF k > Len(es) THEN <<>>
    ELSE EditLines(l1, l2, es[k]) \o ChangeLines(l1, l2, es, k + 1)

\* Mutant: the guard on the empty edit list is inverted.
createSingleHunkMut(l1, l2, es, ctx) ==
    IF Len(es) # 0 THEN <<>> ELSE <<Sprintf(1, 0, 1, 0)>>

\* contextStart := max(0, start-context)
ContextStart(start, ctx) == max(0, start - ctx)

\* contextEnd := min(len(lines), end+context)
ContextEnd(l, end, ctx) == min(Len(l), end + ctx)

\* Mutant: the header prints the 0-based start.
HeaderStartMut(contextStart) == contextStart

\* The 1-based start printed in the header: contextStart+1.
HeaderStart(contextStart) == contextStart + 1

createSingleHunk(l1, l2, es, ctx) ==
    IF Len(es) = 0 THEN <<>>
    ELSE
        LET start1 == es[1].Start1
            end1 == es[Len(es)].End1
            start2 == es[1].Start2
            end2 == es[Len(es)].End2
            contextStart1 == ContextStart(start1, ctx)
            contextEnd1 == ContextEnd(l1, end1, ctx)
            contextStart2 == ContextStart(start2, ctx)
            contextEnd2 == ContextEnd(l2, end2, ctx)
        IN  <<Sprintf(HeaderStart(contextStart1), contextEnd1 - contextStart1,
                      HeaderStart(contextStart2), contextEnd2 - contextStart2)>>
            \o PrefixedLines(" ", l1, contextStart1, start1)
            \o ChangeLines(l1, l2, es, 1)
            \o PrefixedLines(" ", l1, end1, contextEnd1)

(***************************************************************************)
(* createHunksFromEdits.  k is the 0-based index i of the Go code.         *)
(***************************************************************************)
\* The loop that skips equal sections: the index it stops at.
RECURSIVE SkipEqual(_, _)
SkipEqual(es, k) ==
    IF k < Len(es) /\ es[k + 1].Type = "equal" THEN SkipEqual(es, k + 1) ELSE k

\* Mutant: an equal run of exactly 2*context lines is still included.
IncludeCondMut(es, k, ctx) ==
    k < Len(es) /\ (IF es[k + 1].Type # "equal" THEN TRUE
                    ELSE (es[k + 1].End1 - es[k + 1].Start1) <= ctx * 2)

\* Condition of the loop that includes edits in the hunk.
IncludeCond(es, k, ctx) ==
    k < Len(es) /\ (IF es[k + 1].Type # "equal" THEN TRUE
                    ELSE (es[k + 1].End1 - es[k + 1].Start1) < ctx * 2)

\* The loop that includes edits in the hunk: the index it stops at.
RECURSIVE IncludeEdits(_, _, _)
IncludeEdits(es, k, ctx) ==
    IF IncludeCond(es, k, ctx) THEN IncludeEdits(es, k + 1, ctx) ELSE k

\* edits[from:to]
Slice(es, from, to) == SubSeq(es, from + 1, to)

\* The outer loop from index k on; acc.hunks is the hunks appended so far and
\* acc.groups the pairs <<hunkStart, i>> of the slices passed to createSingleHunk.
RECURSIVE HunkLoop(_, _, _, _, _, _)
HunkLoop(l1, l2, es, ctx, k, acc) ==
    IF k >= Len(es) THEN acc
    ELSE
        LET hunkStart == SkipEqual(es, k) IN
        IF hunkStart >= Len(es) THEN acc
        ELSE
            LET end == IncludeEdits(es, hunkStart, ctx)
                hunk == createSingleHunk(l1, l2, Slice(es, hunkStart, end), ctx)
            IN  HunkLoop(l1, l2, es, ctx, end,
                         IF Len(hunk) > 0
                         THEN [hunks |-> Append(acc.hunks, hunk),
                               groups |-> Append(acc.groups, <<hunkStart, end>>)]
                         ELSE acc)

createHunksFromEdits(l1, l2, es, ctx) ==
    HunkLoop(l1, l2, es, ctx, 0, [hunks |-> <<>>, groups |-> <<>>])

(***************************************************************************)
(* getFileList.                                                            *)
(***************************************************************************)
\* Entry names, in the lexical order in which WalkDir reads a directory: two
\* names for files and, between them, one for a directory.
DirName == "e"
FileNames == {"c", "g"}
NameOrder == <<"c", "e", "g">>
Separator == "/"

\* A path below dir is the sequence of its entry names; dir itself is <<>>.
Chain(k) == [n \in 1..k |-> DirName]
FilePathsUnder(k) ==
    {Append(Chain(m), f) : m \in 0..min(k, MaxDepth - 1), f \in FileNames}

\* The directory trees of depth at most MaxDepth: k nested directories, and
\* any set of files in dir and in the directories.
Trees ==
    UNION {{[dirs |-> {Chain(n) : n \in 1..k}, files |-> F] :
                F \in SUBSET FilePathsUnder(k)} : k \in 0..MaxDepth}

\* The state of the walk variables while no call of getFileList runs.
WalkIdle ==
    /\ tree = [dirs |-> {}, files |-> {}]
    /\ recursive = FALSE
    /\ pending = <<>>
    /\ files = <<>>
    /\ visited = <<>>
    /\ wpc = "idle"

\* filepath.Rel(dir, path): "." for dir itself, else the names joined by the
\* separator.
RECURSIVE Join(_)
Join(path) ==
    IF Len(path) = 1 THEN path[1]
    ELSE Join(SubSeq(path, 1, Len(path) - 1)) \o Separator \o path[Len(path)]

Rel(path) == IF path = <<>> THEN "." ELSE Join(path)

\* strings.Contains(s, sep) for a separator of one character.
Contains(s, sep) == \E k \in 1..Len(s) : SubSeq(s, k, k) = sep

\* info.IsDir().
IsDir(path) == path = <<>> \/ path \in tree.dirs

\* The entries WalkDir reads in the directory path, sorted by name.
ReadDir(path) ==
    LET names == SelectSeq(NameOrder,
                     LAMBDA n : Append(path, n) \in (tree.dirs \cup tree.files))
    IN  [k \in 1..Len(names) |-> Append(path, names[k])]

\* The test that stops the non-recursive walk below the first level.
NestedCondMut(relPath) == FALSE
NestedCond(relPath) == ~recursive /\ Contains(relPath, Separator)

\* WalkDir calls the function on dir first.
WalkInit ==
    /\ \E t \in Trees : tree = t
    /\ recursive \in BOOLEAN
    /\ pending = << <<>> >>
    /\ files = <<>>
    /\ visited = <<>>
    /\ wpc = "walk"
    /\ lines1 = <<>>
    /\ lines2 = <<>>
    /\ context = 0
    /\ pc = "idle"
    /\ dp = <<>>
    /\ i = 0
    /\ j = 0
    /\ edits = <<>>
    /\ hunks = <<>>
    /\ groups = <<>>
    /\ diff = <<>>
    /\ printed = <<>>

\* walkFunc on dir itself: relPath is "." and it returns nil, so WalkDir reads
\* the directory.
WalkRoot ==
    /\ wpc = "walk"
    /\ pending # <<>>
    /\ LET path == Head(pending) IN
          /\ Rel(path) = "."
          /\ visited' = Append(visited, path)
          /\ pending' = ReadDir(path) \o Tail(pending)
    /\ UNCHANGED <<tree, recursive, files, wpc>>
    /\ UNCHANGED diffVars

\* walkFunc on a nested directory of a non-recursive walk: it returns SkipDir,
\* so WalkDir does not read the directory.
WalkSkipDir ==
    /\ wpc = "walk"
    /\ pending # <<>>
    /\ LET path == Head(pending) IN
          /\ Rel(path) # "."
          /\ NestedCond(Rel(path))
          /\ IsDir(path)
          /\ visited' = Append(visited, path)
          /\ pending' = Tail(pending)
    /\ UNCHANGED <<tree, recursive, files, wpc>>
    /\ UNCHANGED diffVars

\* walkFunc on a nested file of a non-recursive walk: it returns nil.
WalkSkipFile ==
    /\ wpc = "walk"
    /\ pending # <<>>
    /\ LET path == Head(pending) IN
          /\ Rel(path) # "."
          /\ NestedCond(Rel(path))
          /\ ~IsDir(path)
          /\ visited' = Append(visited, path)
          /\ pending' = Tail(pending)
    /\ UNCHANGED <<tree, recursive, files, wpc>>
    /\ UNCHANGED diffVars

\* walkFunc on any other file: its relative path is appended.
WalkFile ==
    /\ wpc = "walk"
    /\ pending # <<>>
    /\ LET path == Head(pending) IN
          /\ Rel(path) # "."
          /\ ~NestedCond(Rel(path))
          /\ ~IsDir(path)
          /\ files' = Append(files, Rel(path))
          /\ visited' = Append(visited, path)
          /\ pending' = Tail(pending)
    /\ UNCHANGED <<tree, recursive, wpc>>
    /\ UNCHANGED diffVars

\* walkFunc on any other directory: it returns nil, so WalkDir reads the
\* directory.
WalkEnterDir ==
    /\ wpc = "walk"
    /\ pending # <<>>
    /\ LET path == Head(pending) IN
          /\ Rel(path) # "."
          /\ ~NestedCond(Rel(path))
          /\ IsDir(path)
          /\ visited' = Append(visited, path)
          /\ pending' = ReadDir(path) \o Tail(pending)
    /\ UNCHANGED <<tree, recursive, files, wpc>>
    /\ UNCHANGED diffVars

\* WalkDir has nothing left to visit: getFileList returns files.
WalkReturn ==
    /\ wpc = "walk"
    /\ pending = <<>>
    /\ wpc' = "returned"
    /\ UNCHANGED <<tree, recursive, pending, files, visited>>
    /\ UNCHANGED diffVars

WalkNext ==
    \/ WalkRoot
    \/ WalkSkipDir
    \/ WalkSkipFile
    \/ WalkFile
    \/ WalkEnterDir
    \/ WalkReturn

WalkSpec == WalkInit /\ [][WalkNext]_vars

(***************************************************************************)
(* generateUnifiedDiff.                                                    *)
(***************************************************************************)
\* The names of the two files compared.
File1 == "file1"
File2 == "file2"

\* The loop that appends the lines of every hunk, from the g-th hunk on.
RECURSIVE AppendHunks(_, _)
AppendHunks(hs, g) == IF g > Len(hs) THEN <<>> ELSE hs[g] \o AppendHunks(hs, g + 1)

generateUnifiedDiff(file1, file2, hs) ==
    <<"--- " \o file1, "+++ " \o file2>> \o AppendHunks(hs, 1)

(***************************************************************************)
(* Actions.                                                                *)
(***************************************************************************)
Init ==
    /\ \E inp \in Inputs :
          /\ lines1 = inp[1]
          /\ lines2 = inp[2]
          /\ context = inp[3]
    /\ pc = "fill"
    /\ dp = <<>>
    /\ i = 0
    /\ j = 0
    /\ edits = <<>>
    /\ hunks = <<>>
    /\ groups = <<>>
    /\ diff = <<>>
    /\ printed = <<>>
    /\ WalkIdle

\* computeDiff up to the start of the backtracking loop.
Fill ==
    /\ pc = "fill"
    /\ dp' = FillTable(lines1, lines2)
    /\ i' = Len(lines1)
    /\ j' = Len(lines2)
    /\ edits' = <<>>
    /\ pc' = "backtrack"
    /\ UNCHANGED <<lines1, lines2, context, hunks, groups, diff, printed>>
    /\ UNCHANGED walkVars

\* One iteration of the backtracking loop taking the Equal branch.
BacktrackEqual ==
    /\ pc = "backtrack"
    /\ LoopCond(i, j)
    /\ EqualCond(i, j)
    /\ LET k == EqualRun(i, j) IN
          /\ i' = i - k
          /\ j' = j - k
          /\ edits' = Prepend(NewEdit("equal", i - k, (i - 1) + 1, j - k, (j - 1) + 1), edits)
    /\ UNCHANGED <<lines1, lines2, context, pc, dp, hunks, groups, diff, printed>>
    /\ UNCHANGED walkVars

\* One iteration of the backtracking loop taking the Delete branch.
BacktrackDelete ==
    /\ pc = "backtrack"
    /\ LoopCond(i, j)
    /\ ~EqualCond(i, j)
    /\ DeleteCond(i, j)
    /\ LET k == DeleteRun(i, j) IN
          /\ i' = i - k
          /\ j' = j
          /\ edits' = Prepend(NewEdit("delete", i - k, (i - 1) + 1, j, j), edits)
    /\ UNCHANGED <<lines1, lines2, context, pc, dp, hunks, groups, diff, printed>>
    /\ UNCHANGED walkVars

\* One iteration of the backtracking loop taking the Insert branch.
BacktrackInsert ==
    /\ pc = "backtrack"
    /\ LoopCond(i, j)
    /\ ~EqualCond(i, j)
    /\ ~DeleteCond(i, j)
    /\ LET k == InsertRun(i, j) IN
          /\ i' = i
          /\ j' = j - k
          /\ edits' = Prepend(NewEdit("insert", i, i, j - k, (j - 1) + 1), edits)
    /\ UNCHANGED <<lines1, lines2, context, pc, dp, hunks, groups, diff, printed>>
    /\ UNCHANGED walkVars

\* The backtracking loop ends, computeDiff returns the edits and generateHunks
\* passes them to createHunksFromEdits.
Assemble ==
    /\ pc = "backtrack"
    /\ ~LoopCond(i, j)
    /\ LET r == createHunksFromEdits(lines1, lines2, edits, context) IN
          /\ hunks' = r.hunks
          /\ groups' = r.groups
    /\ pc' = "done"
    /\ UNCHANGED <<lines1, lines2, context, dp, i, j, edits, diff, printed>>
    /\ UNCHANGED walkVars

\* compareFiles, for two files that are not binary, from the return of
\* generateHunks on: generateUnifiedDiff builds the list and printDiff prints
\* it when the list is not empty.
CompareFiles ==
    /\ pc = "done"
    /\ diff' = generateUnifiedDiff(File1, File2, hunks)
    /\ printed' = IF Len(diff') > 0 THEN diff' ELSE <<>>
    /\ pc' = "compared"
    /\ UNCHANGED <<lines1, lines2, context, dp, i, j, edits, hunks, groups>>
    /\ UNCHANGED walkVars

Next ==
    \/ Fill
    \/ BacktrackEqual
    \/ BacktrackDelete
    \/ BacktrackInsert
    \/ Assemble
    \/ CompareFiles

Spec == Init /\ [][Next]_vars

(***************************************************************************)
(* Vocabulary of the properties.                                           *)
(***************************************************************************)
Done == pc \in {"done", "compared"}

\* computeDiff has returned: the backtracking loop has ended.
Returned == Done \/ (pc = "backtrack" /\ ~LoopCond(i, j))

EditIdx == 1..Len(edits)

IsEqual(e) == e.Type = "equal"
IsDelete(e) == e.Type = "delete"
IsInsert(e) == e.Type = "insert"

HasType(t) == \E k \in EditIdx : edits[k].Type = t

\* The edits that consume side 1 (Equal, Delete) and side 2 (Equal, Insert).
Side1Edits == SelectSeq(edits, LAMBDA e : IsEqual(e) \/ IsDelete(e))
Side2Edits == SelectSeq(edits, LAMBDA e : IsEqual(e) \/ IsInsert(e))

\* The ranges [Start1,End1) of es start at 0, end at n and each starts where
\* the one before it ends.
Tiles1(es, n) ==
    /\ Len(es) = 0 => n = 0
    /\ Len(es) > 0 => es[1].Start1 = 0 /\ es[Len(es)].End1 = n
    /\ \A k \in 1..Len(es) : es[k].Start1 <= es[k].End1
    /\ \A k \in 1..(Len(es) - 1) : es[k].End1 = es[k + 1].Start1

Tiles2(es, n) ==
    /\ Len(es) = 0 => n = 0
    /\ Len(es) > 0 => es[1].Start2 = 0 /\ es[Len(es)].End2 = n
    /\ \A k \in 1..Len(es) : es[k].Start2 <= es[k].End2
    /\ \A k \in 1..(Len(es) - 1) : es[k].End2 = es[k + 1].Start2

\* The lines of l in the ranges of es, concatenated in list order.
RECURSIVE Rebuild1(_, _, _)
Rebuild1(l, es, k) ==
    IF k > Len(es) THEN <<>>
    ELSE [x \in 1..(es[k].End1 - es[k].Start1) |-> Line(l, es[k].Start1 + x - 1)]
         \o Rebuild1(l, es, k + 1)

RECURSIVE Rebuild2(_, _, _)
Rebuild2(l, es, k) ==
    IF k > Len(es) THEN <<>>
    ELSE [x \in 1..(es[k].End2 - es[k].Start2) |-> Line(l, es[k].Start2 + x - 1)]
         \o Rebuild2(l, es, k + 1)

\* C1: when computeDiff has returned, the [Start1,End1) ranges of the Equal and
\* Delete edits, in list order, are contiguous from 0 to len(A) and rebuild A,
\* and the [Start2,End2) ranges of the Equal and Insert edits are contiguous
\* from 0 to len(B) and rebuild B.
C1_Tiling ==
    Returned =>
        /\ Tiles1(Side1Edits, Len(lines1))
        /\ Tiles2(Side2Edits, Len(lines2))
        /\ Rebuild1(lines1, Side1Edits, 1) = lines1
        /\ Rebuild2(lines2, Side2Edits, 1) = lines2

C1_Witness ==
    /\ Returned
    /\ HasType("equal") /\ HasType("delete") /\ HasType("insert")
    /\ Len(edits) >= 4

(***************************************************************************)
(* An independent definition of the longest common subsequence: the        *)
(* largest set of positions of x whose lines, in order, occur in y in      *)
(* order.                                                                  *)
(***************************************************************************)
RECURSIVE Pick(_, _, _)
Pick(x, S, k) ==
    IF k > Len(x) THEN <<>>
    ELSE (IF k \in S THEN <<x[k]>> ELSE <<>>) \o Pick(x, S, k + 1)

\* u[p..] is a subsequence of y[q..].
RECURSIVE IsSubseqFrom(_, _, _, _)
IsSubseqFrom(u, y, p, q) ==
    IF p > Len(u) THEN TRUE
    ELSE IF q > Len(y) THEN FALSE
    ELSE IF u[p] = y[q] THEN IsSubseqFrom(u, y, p + 1, q + 1)
    ELSE IsSubseqFrom(u, y, p, q + 1)

IsCommon(x, y, S) == IsSubseqFrom(Pick(x, S, 1), y, 1, 1)

LCS(x, y) ==
    CHOOSE n \in 0..Len(x) :
        /\ \E S \in SUBSET (1..Len(x)) : Cardinality(S) = n /\ IsCommon(x, y, S)
        /\ \A S \in SUBSET (1..Len(x)) : IsCommon(x, y, S) => Cardinality(S) <= n

RECURSIVE EqualLines(_, _)
EqualLines(es, k) ==
    IF k > Len(es) THEN 0
    ELSE (IF IsEqual(es[k]) THEN es[k].End1 - es[k].Start1 ELSE 0)
         + EqualLines(es, k + 1)

\* The inputs small enough for LCS to be enumerated.
Enumerable == Len(lines1) <= MaxLen + 1

\* C2: the number of lines covered by Equal edits is the length of a longest
\* common subsequence of A and B (the edit script is minimal).
C2_Minimal ==
    Returned /\ Enumerable => EqualLines(edits, 1) = LCS(lines1, lines2)

\* C3: every edit satisfies the invariant of its kind: an Equal edit covers as
\* many lines of A as of B and the lines agree offset by offset; a Delete edit
\* has End2 = Start2; an Insert edit has End1 = Start1.
C3_KindInvariant ==
    Returned =>
        \A k \in EditIdx :
            LET e == edits[k] IN
            /\ e.Type \in {"equal", "delete", "insert"}
            /\ IsEqual(e) =>
                  /\ e.End1 - e.Start1 = e.End2 - e.Start2
                  /\ e.Start1 >= 0 /\ e.End1 <= Len(lines1)
                  /\ e.Start2 >= 0 /\ e.End2 <= Len(lines2)
                  /\ \A x \in 0..(e.End1 - e.Start1 - 1) :
                        Line(lines1, e.Start1 + x) = Line(lines2, e.Start2 + x)
            /\ IsDelete(e) => e.End2 = e.Start2
            /\ IsInsert(e) => e.End1 = e.Start1

C3_Witness ==
    /\ Returned
    /\ \E k \in EditIdx : IsEqual(edits[k]) /\ edits[k].End1 - edits[k].Start1 >= 2
    /\ \E k \in EditIdx : IsDelete(edits[k]) /\ edits[k].End1 - edits[k].Start1 >= 1
    /\ \E k \in EditIdx : IsInsert(edits[k]) /\ edits[k].End2 - edits[k].Start2 >= 1

\* C4 as stated: consecutive edits have strictly increasing Start1 and strictly
\* increasing Start2.
C4_StrictlyIncreasing ==
    Returned =>
        \A k \in 1..(Len(edits) - 1) :
            /\ edits[k].Start1 < edits[k + 1].Start1
            /\ edits[k].Start2 < edits[k + 1].Start2

\* C4 as amended: consecutive edits have non-decreasing Start1 and
\* non-decreasing Start2, and at least one of the two strictly increases.
C4_Increasing ==
    Returned =>
        \A k \in 1..(Len(edits) - 1) :
            /\ edits[k].Start1 <= edits[k + 1].Start1
            /\ edits[k].Start2 <= edits[k + 1].Start2
            /\ \/ edits[k].Start1 < edits[k + 1].Start1
               \/ edits[k].Start2 < edits[k + 1].Start2

C4_Witness ==
    /\ Returned
    /\ \E k \in 1..(Len(edits) - 1) :
          /\ IsInsert(edits[k]) /\ IsDelete(edits[k + 1])
          /\ edits[k].Start1 = edits[k + 1].Start1
    /\ \E k \in 1..(Len(edits) - 1) :
          /\ IsDelete(edits[k]) /\ IsEqual(edits[k + 1])
          /\ edits[k].Start2 = edits[k + 1].Start2

\* C5: for A = [a,b,c], B = [a,x,c] and context 1 there is exactly one hunk,
\* with header "@@ -1,3 +1,3 @@" and body " a", "-b", "+x", " c" in this order.
C5_Replacement ==
    (Done /\ lines1 = <<"a", "b", "c">> /\ lines2 = <<"a", "x", "c">> /\ context = 1)
        => hunks = << <<"@@ -1,3 +1,3 @@", " a", "-b", "+x", " c">> >>

\* C5: for A = [a,b,c], B = [a,x,c] and context 1 there is exactly one hunk,
\* with header "@@ -1,3 +1,3 @@" and body " a", "+x", "-b", " c" in this order:
\* the added line is listed before the removed line.
C5_ReplacementInsertFirst ==
    (Done /\ lines1 = <<"a", "b", "c">> /\ lines2 = <<"a", "x", "c">> /\ context = 1)
        => hunks = << <<"@@ -1,3 +1,3 @@", " a", "+x", "-b", " c">> >>

C5_Witness ==
    /\ Done
    /\ lines1 = <<"a", "b", "c">> /\ lines2 = <<"a", "x", "c">> /\ context = 1
    /\ Len(hunks) = 1
    /\ Len(hunks[1]) = 5

\* First character of a rendered line, and the body of a hunk.
Prefix(line) == SubSeq(line, 1, 1)
Body(h) == Tail(h)

\* Number of lines of the sequence ls whose prefix is in the set P.
Count(ls, P) == Cardinality({k \in 1..Len(ls) : Prefix(ls[k]) \in P})

\* C6: for A = [] and B = [a,b] there is exactly one hunk, all its body lines
\* are '+'-prefixed and its header is "@@ -0,0 +1,2 @@".
C6_AllInserted ==
    (Done /\ lines1 = <<>> /\ lines2 = <<"a", "b">>)
        => /\ Len(hunks) = 1
           /\ \A k \in 1..Len(Body(hunks[1])) : Prefix(Body(hunks[1])[k]) = "+"
           /\ hunks[1][1] = "@@ -0,0 +1,2 @@"

HunkIdx == 1..Len(hunks)

\* The header of hunk h announces l1 lines of side 1 and l2 lines of side 2
\* (with whatever start numbers).
Announces(h, l1, l2) ==
    \E s1, s2 \in 0..(Len(lines1) + Len(lines2) + 1) : h[1] = Sprintf(s1, l1, s2, l2)

\* C7: in every hunk the header lengths agree with the body: l1 is the number
\* of body lines prefixed ' ' or '-' and l2 the number prefixed ' ' or '+'.
C7_HeaderCounts ==
    Done =>
        \A g \in HunkIdx :
            Announces(hunks[g], Count(Body(hunks[g]), {" ", "-"}),
                                Count(Body(hunks[g]), {" ", "+"}))

C7_Witness ==
    /\ Done
    /\ context >= 1
    /\ \E g \in HunkIdx :
          /\ Count(Body(hunks[g]), {" "}) >= 2
          /\ Count(Body(hunks[g]), {"-"}) >= 1
          /\ Count(Body(hunks[g]), {"+"}) >= 1
          /\ Count(Body(hunks[g]), {" ", "-"}) # Count(Body(hunks[g]), {" ", "+"})

\* Number of ' '-prefixed lines at the start of ls, from position k on.
RECURSIVE LeadingContext(_, _)
LeadingContext(ls, k) ==
    IF k <= Len(ls) /\ Prefix(ls[k]) = " " THEN 1 + LeadingContext(ls, k + 1) ELSE 0

\* Number of ' '-prefixed lines at the end of ls, from position k back.
RECURSIVE TrailingContext(_, _)
TrailingContext(ls, k) ==
    IF k >= 1 /\ Prefix(ls[k]) = " " THEN 1 + TrailingContext(ls, k - 1) ELSE 0

\* C8: in every hunk at most context ' '-prefixed lines precede the first
\* '-'/'+' line and at most context ' '-prefixed lines follow the last one.
C8_ContextBounded ==
    Done =>
        \A g \in HunkIdx :
            /\ LeadingContext(Body(hunks[g]), 1) <= context
            /\ TrailingContext(Body(hunks[g]), Len(Body(hunks[g]))) <= context

\* The edits (1-based positions) passed to createSingleHunk for hunk g.
GroupEdits(g) == (groups[g][1] + 1)..groups[g][2]

InSameHunk(p, q) == \E g \in 1..Len(groups) : p \in GroupEdits(g) /\ q \in GroupEdits(g)

NonEqualIdx == {k \in EditIdx : ~IsEqual(edits[k])}

RunLength(e) == e.End1 - e.Start1

\* Every Equal run between positions p and q is shorter than 2*context.
OnlyShortRunsBetween(p, q) ==
    \A r \in p..q : IsEqual(edits[r]) => RunLength(edits[r]) < 2 * context

\* Group g is a maximal run of adjacent non-Equal edits.
MaximalChangeRun(g) ==
    /\ \A k \in GroupEdits(g) : ~IsEqual(edits[k])
    /\ groups[g][1] >= 1 => IsEqual(edits[groups[g][1]])
    /\ groups[g][2] < Len(edits) => IsEqual(edits[groups[g][2] + 1])

\* C9: two non-Equal edits are rendered in the same hunk exactly when every
\* Equal run between them is shorter than 2*context; hunk g is the rendering
\* of the g-th group; two changes ten unchanged lines apart with context 2
\* give two hunks; with context 0 every hunk is a maximal run of adjacent
\* non-Equal edits.
C9_FirmBoundary ==
    Done =>
        /\ Len(hunks) = Len(groups)
        /\ \A g \in HunkIdx :
              hunks[g] = createSingleHunk(lines1, lines2,
                                          Slice(edits, groups[g][1], groups[g][2]), context)
        /\ \A p \in NonEqualIdx : InSameHunk(p, p)
        /\ \A p, q \in NonEqualIdx :
              p < q => (InSameHunk(p, q) <=> OnlyShortRunsBetween(p, q))
        /\ (lines1 = TenApart1 /\ lines2 = TenApart2 /\ context = 2) => Len(hunks) = 2
        /\ context = 0 => \A g \in 1..Len(groups) : MaximalChangeRun(g)

C9_Witness ==
    /\ Done
    /\ context >= 1
    /\ \E p, q, r \in NonEqualIdx :
          /\ p + 1 < q /\ q + 1 < r
          /\ InSameHunk(p, q)
          /\ ~InSameHunk(q, r)

\* C10: generateHunks returns no hunk exactly when A and B are identical.
C10_EmptyIffIdentical ==
    Done => (hunks = <<>> <=> lines1 = lines2)

C10_Witness ==
    /\ Done
    /\ lines1 = lines2
    /\ Len(lines1) >= 2
    /\ context >= 1
    /\ hunks = <<>>

\* C11: computeDiff(A,A) returns exactly one edit, an Equal from 0 to len(A) on
\* both sides, when A is not empty, and the empty list when A is empty.
C11_Identity ==
    (Returned /\ lines1 = lines2) =>
        edits = IF Len(lines1) = 0 THEN <<>>
                ELSE <<[Type |-> "equal", Start1 |-> 0, End1 |-> Len(lines1),
                        Start2 |-> 0, End2 |-> Len(lines1)]>>

C11_Witness ==
    /\ Returned
    /\ lines1 = lines2
    /\ Len(lines1) >= 3
    /\ \E k \in 1..(Len(lines1) - 1) : lines1[k] # lines1[k + 1]
    /\ Len(edits) = 1

\* The fill phase has just ended.
Filled == pc = "backtrack" /\ i = Len(lines1) /\ j = Len(lines2) /\ edits = <<>>

\* l[0:k]
Front(l, k) == SubSeq(l, 1, k)

\* C16: after the fill phase dp[a][b] is the length of a longest common
\* subsequence of A[0:a] and B[0:b], for all 0 <= a <= len(A), 0 <= b <= len(B).
C16_TableIsLCS ==
    (Filled /\ Enumerable) =>
        /\ DOMAIN dp = 0..Len(lines1)
        /\ \A a \in 0..Len(lines1) :
              /\ DOMAIN dp[a] = 0..Len(lines2)
              /\ \A b \in 0..Len(lines2) :
                    dp[a][b] = LCS(Front(lines1, a), Front(lines2, b))

C16_Witness ==
    /\ Filled
    /\ Enumerable
    /\ Len(lines1) >= 3 /\ Len(lines2) >= 3
    /\ dp[Len(lines1)][Len(lines2)] = 2
    /\ dp[Len(lines1) - 1][Len(lines2)] # dp[Len(lines1)][Len(lines2) - 1]

\* C17 as stated: in the returned edit list a Delete is never immediately
\* followed by an Insert, and every Insert is the first edit or directly
\* preceded by an Equal.
C17_InsertFirst ==
    /\ Returned =>
          /\ \A k \in 1..(Len(edits) - 1) :
                ~(IsDelete(edits[k]) /\ IsInsert(edits[k + 1]))
          /\ \A k \in EditIdx :
                IsInsert(edits[k]) => (k = 1 \/ IsEqual(edits[k - 1]))
    /\ Done =>
          \A g \in 1..Len(hunks) : \A k \in 2..(Len(hunks[g]) - 1) :
              ~(SubSeq(hunks[g][k], 1, 1) = "-" /\ SubSeq(hunks[g][k + 1], 1, 1) = "+")

C17_Witness ==
    /\ Done
    /\ \E k \in 1..(Len(edits) - 1) : IsInsert(edits[k]) /\ IsDelete(edits[k + 1])
    /\ \E g \in 1..Len(hunks) : \E k \in 2..(Len(hunks[g]) - 1) :
          SubSeq(hunks[g][k], 1, 1) = "+" /\ SubSeq(hunks[g][k + 1], 1, 1) = "-"

\* C13: every iteration of the backtracking loop prepends exactly one edit and
\* decreases i or j by at least one (neither grows), so at most len(A)+len(B)
\* iterations run, and while i > 0 or j > 0 another iteration can run: the
\* loop reaches i = 0, j = 0 and computeDiff returns.
BacktrackStep == pc = "backtrack" /\ pc' = "backtrack"

C13_Terminates ==
    /\ [][BacktrackStep =>
            /\ Len(edits') = Len(edits) + 1
            /\ i' <= i /\ j' <= j /\ i' >= 0 /\ j' >= 0
            /\ i' + j' < i + j]_vars
    /\ [](pc = "backtrack" =>
            /\ Len(edits) + i + j <= Len(lines1) + Len(lines2)
            /\ Returned \/ ENABLED (BacktrackEqual \/ BacktrackDelete \/ BacktrackInsert))

C13_Witness ==
    /\ Returned
    /\ Len(lines1) >= 2 /\ Len(lines2) >= 2
    /\ Len(edits) >= 3
    /\ Len(edits) < Len(lines1) + Len(lines2)

\* The text of a rendered line without its prefix character.
Text(line) == SubSeq(line, 2, Len(line))

\* The texts of the lines of ls whose prefix is in P, in order.
RECURSIVE TextsWith(_, _, _)
TextsWith(ls, P, k) ==
    IF k > Len(ls) THEN <<>>
    ELSE (IF Prefix(ls[k]) \in P THEN <<Text(ls[k])>> ELSE <<>>) \o TextsWith(ls, P, k + 1)

\* The texts of the body lines with a prefix in P over the hunks g.., in order.
RECURSIVE AllTextsWith(_, _)
AllTextsWith(P, g) ==
    IF g > Len(hunks) THEN <<>>
    ELSE TextsWith(Body(hunks[g]), P, 1) \o AllTextsWith(P, g + 1)

DeleteEdits == SelectSeq(edits, IsDelete)
InsertEdits == SelectSeq(edits, IsInsert)

\* C14: over all hunks in order, the '-' lines are the lines of A covered by
\* Delete edits, in order and each once, the '+' lines are the lines of B
\* covered by Insert edits, in order and each once, and every hunk starts with
\* an "@@" header.
C14_ChangesOnce ==
    Done =>
        /\ AllTextsWith({"-"}, 1) = Rebuild1(lines1, DeleteEdits, 1)
        /\ AllTextsWith({"+"}, 1) = Rebuild2(lines2, InsertEdits, 1)
        /\ \A g \in HunkIdx : SubSeq(hunks[g][1], 1, 2) = "@@"

C14_Witness ==
    /\ Done
    /\ Len(hunks) >= 2
    /\ Len(AllTextsWith({"-"}, 1)) >= 2
    /\ Len(AllTextsWith({"+"}, 1)) >= 2
    /\ \E g \in HunkIdx : Count(Body(hunks[g]), {" "}) >= 1

\* l[lo:hi] of the Go slice l when 0 <= lo <= hi <= len(l).
InBounds(l, lo, hi) == 0 <= lo /\ lo <= hi /\ hi <= Len(l)
GoSlice(l, lo, hi) == SubSeq(l, lo + 1, hi)

\* C18: for every hunk with header "@@ -s1,l1 +s2,l2 @@" the body lines
\* prefixed ' ' or '-', without the prefix, are A[s1-1 : s1-1+l1], and the body
\* lines prefixed ' ' or '+', without the prefix, are B[s2-1 : s2-1+l2].
C18_PatchConsistent ==
    Done =>
        \A g \in HunkIdx :
            LET old == TextsWith(Body(hunks[g]), {" ", "-"}, 1)
                new == TextsWith(Body(hunks[g]), {" ", "+"}, 1)
            IN  \E s1 \in 1..(Len(lines1) + 1), s2 \in 1..(Len(lines2) + 1) :
                    /\ hunks[g][1] = Sprintf(s1, Len(old), s2, Len(new))
                    /\ InBounds(lines1, s1 - 1, s1 - 1 + Len(old))
                    /\ InBounds(lines2, s2 - 1, s2 - 1 + Len(new))
                    /\ old = GoSlice(lines1, s1 - 1, s1 - 1 + Len(old))
                    /\ new = GoSlice(lines2, s2 - 1, s2 - 1 + Len(new))

C18_Witness ==
    /\ Done
    /\ context >= 1
    /\ lines1 # lines2
    /\ \E g \in HunkIdx :
          /\ LeadingContext(Body(hunks[g]), 1) >= 1
          /\ TrailingContext(Body(hunks[g]), Len(Body(hunks[g]))) >= 1
          /\ Count(Body(hunks[g]), {"+"}) >= 1
          /\ Count(Body(hunks[g]), {" ", "-"}) # Count(Body(hunks[g]), {" ", "+"})
          /\ hunks[g][1] # Sprintf(1, Count(Body(hunks[g]), {" ", "-"}),
                                   1, Count(Body(hunks[g]), {" ", "+"}))

\* The edits passed to createSingleHunk for hunk g and the bounds it computes.
HunkEdits(g) == Slice(edits, groups[g][1], groups[g][2])
Start1Of(g) == HunkEdits(g)[1].Start1
End1Of(g) == HunkEdits(g)[Len(HunkEdits(g))].End1
Start2Of(g) == HunkEdits(g)[1].Start2
End2Of(g) == HunkEdits(g)[Len(HunkEdits(g))].End2

\* The indices of l1 and l2 read while hunk g is rendered.
Reads1(g) ==
    (ContextStart(Start1Of(g), context)..(Start1Of(g) - 1))
    \cup UNION {e.Start1..(e.End1 - 1) :
                  e \in {HunkEdits(g)[k] : k \in {x \in 1..Len(HunkEdits(g)) :
                                                    ~IsInsert(HunkEdits(g)[x])}}}
    \cup (End1Of(g)..(ContextEnd(lines1, End1Of(g), context) - 1))

Reads2(g) ==
    UNION {e.Start2..(e.End2 - 1) :
             e \in {HunkEdits(g)[k] : k \in {x \in 1..Len(HunkEdits(g)) :
                                               IsInsert(HunkEdits(g)[x])}}}

\* C12: for every hunk the context windows satisfy
\* 0 <= contextStart <= contextEnd <= len on both sides, every index read
\* while rendering is in range, and the header prints contextStart+1 >= 1 for
\* both sides; with context 3 and a change at the first line of a 5-line file
\* the header starts are 1.
C12_WindowClipped ==
    Done =>
        /\ Len(groups) = Len(hunks)
        /\ \A g \in HunkIdx :
              LET cs1 == ContextStart(Start1Of(g), context)
                  ce1 == ContextEnd(lines1, End1Of(g), context)
                  cs2 == ContextStart(Start2Of(g), context)
                  ce2 == ContextEnd(lines2, End2Of(g), context)
              IN  /\ 0 <= cs1 /\ cs1 <= ce1 /\ ce1 <= Len(lines1)
                  /\ 0 <= cs2 /\ cs2 <= ce2 /\ ce2 <= Len(lines2)
                  /\ Reads1(g) \subseteq 0..(Len(lines1) - 1)
                  /\ Reads2(g) \subseteq 0..(Len(lines2) - 1)
                  /\ hunks[g][1] = Sprintf(cs1 + 1, ce1 - cs1, cs2 + 1, ce2 - cs2)
                  /\ cs1 + 1 >= 1 /\ cs2 + 1 >= 1
        /\ (lines1 = <<"x", "b", "c", "d", "e">> /\ lines2 = <<"a", "b", "c", "d", "e">>
            /\ context = 3) =>
               /\ Len(hunks) = 1
               /\ \E l1, l2 \in 0..5 : hunks[1][1] = Sprintf(1, l1, 1, l2)

C12_Witness ==
    /\ Done
    /\ \E g \in HunkIdx :
          /\ Start1Of(g) >= 1 /\ Start1Of(g) < context
          /\ End1Of(g) + context > Len(lines1)
          /\ End2Of(g) + context > Len(lines2)
          /\ Reads1(g) # {} /\ Reads2(g) # {}

\* C19: for identical files generateUnifiedDiff returns the empty list and
\* compareFiles prints nothing (no "---"/"+++" lines).
C19_SilentWhenEqual ==
    (pc = "compared" /\ lines1 = lines2) => (diff = <<>> /\ printed = <<>>)

\* The elements of a sequence, and whether it lists nothing twice.
Elems(q) == {q[k] : k \in 1..Len(q)}
NoDuplicates(q) == Cardinality(Elems(q)) = Len(q)

\* C15: getFileList(dir, false) returns exactly the non-directory entries
\* directly inside dir, none with a separator, and its walk visits no path
\* below the second level; getFileList(dir, true) returns the relative path of
\* every non-directory entry at any depth; neither returns a directory or ".".
C15_FileList ==
    /\ (wpc \in {"walk", "returned"} /\ ~recursive) =>
          \A k \in 1..Len(visited) : Len(visited[k]) <= 2
    /\ wpc = "returned" =>
          /\ NoDuplicates(files)
          /\ ~recursive =>
                /\ Elems(files) = {Rel(p) : p \in {q \in tree.files : Len(q) = 1}}
                /\ \A k \in 1..Len(files) : ~Contains(files[k], Separator)
          /\ recursive => Elems(files) = {Rel(p) : p \in tree.files}
          /\ "." \notin Elems(files)
          /\ \A p \in tree.dirs : Rel(p) \notin Elems(files)

C15_Witness ==
    /\ wpc = "returned"
    /\ ~recursive
    /\ \E p \in tree.files : Len(p) = 1
    /\ \E p \in tree.files : Len(p) = 2
    /\ \E p \in tree.files : Len(p) = 3
    /\ files # <<>>
    /\ \E k \in 1..Len(visited) : Len(visited[k]) = 2 /\ IsDir(visited[k])

====
